---------------------------- MODULE Spec2Model ----------------------------
(***************************************************************************)
(* Model of server-python/main.py: the FCM token registry (TokenManager),  *)
(* the delivery gateway (FCMService.send_message) and the Flask handlers   *)
(* that drive them.                                                        *)
(*                                                                         *)
(* Spec      one call at a time (each handler is one atomic action), at    *)
(*           one reading of the clock.                                     *)
(* SpecClock the same calls over two identifiers with the clock advancing. *)
(* SpecConc  two request threads of the Flask server interleaving at the   *)
(*           level of the statements of the handlers.                      *)
(***************************************************************************)
EXTENDS Integers, Sequences, FiniteSets, TLC

VARIABLES
    tokens,   \* TokenManager.tokens: insertion-ordered dict, as a sequence of FCMToken
    now,      \* the reading of datetime.now()
    last,     \* the last completed call and what it returned (sequential specs)
    pc,       \* per request thread: the statement it is at
    req,      \* per request thread: the request it is serving
    loc       \* per request thread: the handler's local variables and its response

vars == <<tokens, now, last, pc, req, loc>>

(***************************************************************************)
(* Bounds of the model.                                                    *)
(***************************************************************************)
\* the registration identifiers clients use
TokenIds == {"a", "b", "c"}
\* the identifiers used when the clock advances, and by concurrent requests
FewIds == {"a", "b"}
\* the clock stops advancing here
MaxTime == 1
\* cap on successful_sends + failed_sends summed over the registry
MaxSends == 2
\* longest results list handed to update_token_stats
MaxResults == 1
\* longest results list where update_token_stats is studied by itself
MaxBatch == 2

\* MAX_TOKENS as the modelled server is configured (main.py reads it from the
\* environment, default 10000)
max_tokens == 2

(***************************************************************************)
(* JSON values of a request's "token" field.                               *)
(***************************************************************************)
Str(s) == [type |-> "str", val |-> s]
Null == [type |-> "null", val |-> ""]
Num7 == [type |-> "int", val |-> "7"]

\* Python truthiness of a JSON value: `not token`
Falsy(v) == v.type = "null" \/ (v.type = "str" /\ v.val = "") \/ (v.type = "int" /\ v.val = "0")
\* isinstance(token, str)
IsStr(v) == v.type = "str"

(***************************************************************************)
(* FCMToken and the dict TokenManager.tokens.                              *)
(***************************************************************************)
FCMToken(t, reg, act) ==
    [token |-> t, registered_at |-> reg, last_active |-> act,
     successful_sends |-> 0, failed_sends |-> 0, is_active |-> TRUE]

Keys(tk) == {tk[i].token : i \in DOMAIN tk}
\* `token in self.tokens`
Has(tk, t) == t \in Keys(tk)
Idx(tk, t) == CHOOSE i \in DOMAIN tk : tk[i].token = t
\* self.tokens[token]
Get(tk, t) == tk[Idx(tk, t)]
\* del self.tokens[token]
Del(tk, t) == SelectSeq(tk, LAMBDA r : r.token # t)
\* self.tokens[token] = record: a new key goes last, an existing key keeps its place
Put(tk, r) == IF Has(tk, r.token) THEN [tk EXCEPT ![Idx(tk, r.token)] = r] ELSE Append(tk, r)

(***************************************************************************)
(* FCMService.send_message: one call of the provider, its outcome as data. *)
(***************************************************************************)
\* what messaging.send does: returns, or raises one of these
Providers == {"ok", "InvalidArgumentError", "UnregisteredError", "Exception"}

\* (mutant) `except Exception` comes first and catches every provider error
send_message_catch_all(token, provider) ==
    IF provider = "ok"
    THEN [success |-> TRUE, token |-> token, response |-> "message-id",
          error |-> "", error_code |-> ""]
    ELSE [success |-> FALSE, token |-> token, response |-> "",
          error |-> "provider error", error_code |-> "UNKNOWN"]

\* the dict send_message returns (a key the dict lacks is "")
send_message(token, provider) ==
    CASE provider = "ok" ->
           [success |-> TRUE, token |-> token, response |-> "message-id",
            error |-> "", error_code |-> ""]
      [] provider = "InvalidArgumentError" ->
           [success |-> FALSE, token |-> token, response |-> "",
            error |-> "Invalid message format", error_code |-> "INVALID_ARGUMENT"]
      [] provider = "UnregisteredError" ->
           [success |-> FALSE, token |-> token, response |-> "",
            error |-> "Token not registered", error_code |-> "UNREGISTERED"]
      [] OTHER ->
           [success |-> FALSE, token |-> token, response |-> "",
            error |-> "provider error", error_code |-> "UNKNOWN"]

\* the outcomes a caller can hand to update_token_stats
Outcomes == {send_message(t, p) : t \in TokenIds, p \in Providers}

(***************************************************************************)
(* TokenManager.                                                           *)
(***************************************************************************)
\* the tokens of a sequence of records or outcomes
RECURSIVE TokensOf(_)
TokensOf(results) ==
    IF results = <<>> THEN <<>> ELSE <<Head(results).token>> \o TokensOf(Tail(results))

\* (mutant) the test of is_active is inverted
cleanup_active_tokens(tk) == SelectSeq(tk, LAMBDA r : ~r.is_active)

\* _cleanup_inactive_tokens: delete every record that is not active
cleanup_inactive_tokens(tk) == SelectSeq(tk, LAMBDA r : r.is_active)

\* (mutant) no isinstance test
register_raises_only_empty(v) == Falsy(v)

\* register_token raises ValueError
register_raises(v) == Falsy(v) \/ ~IsStr(v)

\* (mutant) re-registration builds the record afresh
register_existing_resets(tk, t, time) ==
    [tokens |-> Put(tk, FCMToken(t, time, time)), is_new |-> FALSE, token_count |-> Len(tk)]

\* (mutant) re-registration stamps registered_at as well
register_existing_restamps(tk, t, time) ==
    [tokens |-> Put(tk, [Get(tk, t) EXCEPT !.registered_at = time, !.last_active = time,
                                           !.is_active = TRUE]),
     is_new |-> FALSE,
     token_count |-> Len(tk)]

\* register_token, the branch for a token already in the dict
register_existing(tk, t, time) ==
    [tokens |-> Put(tk, [Get(tk, t) EXCEPT !.last_active = time, !.is_active = TRUE]),
     is_new |-> FALSE,
     token_count |-> Len(tk)]

\* (mutant) the limit test is > instead of >=
register_new_late_cleanup(tk, t, time) ==
    LET room == IF Len(tk) > max_tokens THEN cleanup_inactive_tokens(tk) ELSE tk
        after == Put(room, FCMToken(t, time, time))
    IN  [tokens |-> after, is_new |-> TRUE, token_count |-> Len(after)]

\* (mutant) a registry still full after the cleanup takes no new record
register_new_bounded(tk, t, time) ==
    LET room == IF Len(tk) >= max_tokens THEN cleanup_inactive_tokens(tk) ELSE tk
        after == IF Len(room) >= max_tokens THEN room ELSE Put(room, FCMToken(t, time, time))
    IN  [tokens |-> after, is_new |-> TRUE, token_count |-> Len(after)]

\* register_token, the branch for a new token
register_new(tk, t, time) ==
    LET room == IF Len(tk) >= max_tokens THEN cleanup_inactive_tokens(tk) ELSE tk
        after == Put(room, FCMToken(t, time, time))
    IN  [tokens |-> after, is_new |-> TRUE, token_count |-> Len(after)]

\* (mutant) no test for a token already in the dict
register_token_always_new(tk, t, time) == register_new(tk, t, time)

\* register_token for a valid token
register_token(tk, t, time) ==
    IF Has(tk, t) THEN register_existing(tk, t, time) ELSE register_new(tk, t, time)

\* (mutant) the list is not filtered by is_active
get_active_tokens_unfiltered(tk) == TokensOf(tk)

\* get_active_tokens
RECURSIVE get_active_tokens(_)
get_active_tokens(tk) ==
    IF tk = <<>> THEN <<>>
    ELSE (IF Head(tk).is_active THEN <<Head(tk).token>> ELSE <<>>) \o get_active_tokens(Tail(tk))

\* (mutant) a successful send marks the record active again
update_one_reactivates(tk, r, time) ==
    IF ~Has(tk, r.token) THEN tk
    ELSE LET o == Get(tk, r.token)
         IN  IF r.success
             THEN Put(tk, [o EXCEPT !.successful_sends = @ + 1, !.last_active = time,
                                    !.is_active = TRUE])
             ELSE Put(tk, [o EXCEPT !.failed_sends = @ + 1,
                                    !.is_active = IF r.error_code \in {"UNREGISTERED", "INVALID_ARGUMENT"}
                                                  THEN FALSE ELSE @])

\* update_token_stats, the body of the loop for one result
update_one(tk, r, time) ==
    IF ~Has(tk, r.token) THEN tk
    ELSE LET o == Get(tk, r.token)
         IN  IF r.success
             THEN Put(tk, [o EXCEPT !.successful_sends = @ + 1, !.last_active = time])
             ELSE Put(tk, [o EXCEPT !.failed_sends = @ + 1,
                                    !.is_active = IF r.error_code \in {"UNREGISTERED", "INVALID_ARGUMENT"}
                                                  THEN FALSE ELSE @])

\* (mutant) the loop ends after its first turn
update_token_stats_first_only(tk, results, time) ==
    IF results = <<>> THEN tk ELSE update_one(tk, Head(results), time)

\* update_token_stats: the results in order
RECURSIVE update_token_stats(_, _, _)
update_token_stats(tk, results, time) ==
    IF results = <<>> THEN tk
    ELSE update_token_stats(update_one(tk, Head(results), time), Tail(results), time)

RECURSIVE SumSuccessful(_)
SumSuccessful(tk) == IF tk = <<>> THEN 0 ELSE Head(tk).successful_sends + SumSuccessful(Tail(tk))
RECURSIVE SumFailed(_)
SumFailed(tk) == IF tk = <<>> THEN 0 ELSE Head(tk).failed_sends + SumFailed(Tail(tk))

NoStats ==
    [total_tokens |-> 0, active_tokens |-> 0, inactive_tokens |-> 0,
     total_successful_sends |-> 0, total_failed_sends |-> 0]

\* (mutant) active_count counts every record
get_stats_counts_all(tk) ==
    [total_tokens |-> Len(tk),
     active_tokens |-> Len(tk),
     inactive_tokens |-> Len(tk) - Len(tk),
     total_successful_sends |-> SumSuccessful(tk),
     total_failed_sends |-> SumFailed(tk)]

\* get_stats
get_stats(tk) ==
    LET active_count == Len(SelectSeq(tk, LAMBDA r : r.is_active))
    IN  [total_tokens |-> Len(tk),
         active_tokens |-> active_count,
         inactive_tokens |-> Len(tk) - active_count,
         total_successful_sends |-> SumSuccessful(tk),
         total_failed_sends |-> SumFailed(tk)]

\* remove_token raises: token[:20] of a value that is not a string
remove_raises(v) == ~IsStr(v)

\* (mutant) return True outside the if
remove_token_always_true(tk, t) ==
    IF Has(tk, t) THEN [tokens |-> Del(tk, t), removed |-> TRUE]
                  ELSE [tokens |-> tk, removed |-> TRUE]

\* remove_token for a string
remove_token(tk, t) ==
    IF Has(tk, t) THEN [tokens |-> Del(tk, t), removed |-> TRUE]
                  ELSE [tokens |-> tk, removed |-> FALSE]

\* get_tokens: the records without the token, under a positional id
tokens_info(tk) ==
    [i \in DOMAIN tk |->
        [id |-> "token_" \o ToString(i),
         registered_at |-> tk[i].registered_at,
         last_active |-> tk[i].last_active,
         successful_sends |-> tk[i].successful_sends,
         failed_sends |-> tk[i].failed_sends,
         is_active |-> tk[i].is_active]]

(***************************************************************************)
(* The Flask handlers, one call each.                                      *)
(***************************************************************************)
\* request.get_json(): nothing usable (None or {}), or an object whose "token" is v
\* (Null when the object has no such key)
NoJson == [json |-> FALSE, token |-> Null]
Obj(v) == [json |-> TRUE, token |-> v]
Bodies(ids) == {NoJson} \cup {Obj(v) : v \in {Str(t) : t \in ids} \cup {Str(""), Num7, Null}}
\* the bodies whose "token" is one of the identifiers
StrBodies(ids) == {Obj(Str(t)) : t \in ids}

\* a response, and what the model notes about the call: calls (the tokens the
\* gateway was called with), provider (what messaging.send did on each of these
\* calls), results (the argument of update_token_stats, or the results list of
\* send_push), size_before (the registry's size when the call began), again (the call before
\* it was a successful POST /register with the same body)
NoCall ==
    [op |-> "none", body |-> NoJson, status |-> 0, success |-> FALSE, error |-> "",
     message |-> "", is_new |-> FALSE, total_tokens |-> 0, removed |-> FALSE,
     calls |-> <<>>, sent |-> 0, failed |-> 0, successes |-> <<>>, failures |-> <<>>,
     stats |-> NoStats, listing |-> <<>>,
     results |-> <<>>, provider |-> <<>>, size_before |-> 0, again |-> FALSE]

Failure(op, body, status, error) ==
    [NoCall EXCEPT !.op = op, !.body = body, !.status = status, !.error = error]

\* POST /register
register_response(tk, body, time) ==
    IF ~body.json THEN Failure("register", body, 400, "No JSON data provided")
    ELSE IF Falsy(body.token) THEN Failure("register", body, 400, "No token provided")
    ELSE IF register_raises(body.token) THEN Failure("register", body, 400, "Invalid token provided")
    ELSE LET result == register_token(tk, body.token.val, time)
         IN  [NoCall EXCEPT !.op = "register", !.body = body, !.status = 200, !.success = TRUE,
                            !.message = IF result.is_new THEN "New token registered" ELSE "Token updated",
                            !.is_new = result.is_new,
                            !.total_tokens = result.token_count]

register_tokens(tk, body, time) ==
    IF body.json /\ ~Falsy(body.token) /\ ~register_raises(body.token)
    THEN register_token(tk, body.token.val, time).tokens
    ELSE tk

\* POST /unregister
unregister_response(tk, body) ==
    IF ~body.json THEN Failure("unregister", body, 400, "No JSON data provided")
    ELSE IF Falsy(body.token) THEN Failure("unregister", body, 400, "No token provided")
    ELSE IF remove_raises(body.token)
         THEN Failure("unregister", body, 500, "Internal server error during unregistration")
    ELSE LET result == remove_token(tk, body.token.val)
         IN  IF result.removed
             THEN [NoCall EXCEPT !.op = "unregister", !.body = body, !.status = 200, !.success = TRUE,
                                 !.message = "Token unregistered successfully",
                                 !.removed = TRUE,
                                 !.total_tokens = Len(result.tokens)]
             ELSE [NoCall EXCEPT !.op = "unregister", !.body = body, !.status = 404,
                                 !.error = "User not found or already unregistered",
                                 !.message = "Token not found in database"]

unregister_tokens(tk, body) ==
    IF body.json /\ ~Falsy(body.token) /\ ~remove_raises(body.token)
    THEN remove_token(tk, body.token.val).tokens
    ELSE tk

\* POST /send: the loop over active_tokens, provider[i] is what messaging.send does
\* on the i-th call
send_results(active_tokens, provider) ==
    [i \in 1..Len(active_tokens) |-> send_message(active_tokens[i], provider[i])]

\* successes = [r for r in results if r.get('success')]
successes_of(results) == SelectSeq(results, LAMBDA r : r.success)

\* (mutant) the failures are picked by one error code
failures_of_unknown(results) == SelectSeq(results, LAMBDA r : r.error_code = "UNKNOWN")

\* failures = [r for r in results if not r.get('success')]
failures_of(results) == SelectSeq(results, LAMBDA r : ~r.success)

send_report(body, active_tokens, results) ==
    [NoCall EXCEPT !.op = "send", !.body = body, !.status = 200, !.success = TRUE,
                   !.sent = Len(successes_of(results)),
                   !.failed = Len(failures_of(results)),
                   !.message = "Broadcast sent to " \o ToString(Len(successes_of(results))) \o " devices",
                   !.successes = successes_of(results),
                   !.failures = failures_of(results),
                   !.calls = TokensOf(results),
                   !.results = results]

send_response(tk, body, provider) ==
    IF ~body.json THEN Failure("send", body, 400, "No JSON data provided")
    ELSE LET active_tokens == get_active_tokens(tk)
         IN  IF active_tokens = <<>>
             THEN Failure("send", body, 400, "No active tokens to send to")
             ELSE send_report(body, active_tokens, send_results(active_tokens, provider))

\* GET /tokens
tokens_response(tk) ==
    [NoCall EXCEPT !.op = "tokens", !.status = 200, !.success = TRUE,
                   !.stats = get_stats(tk), !.listing = tokens_info(tk)]

\* GET /stats
stats_response(tk) ==
    [NoCall EXCEPT !.op = "stats", !.status = 200, !.success = TRUE, !.stats = get_stats(tk)]

\* GET /
health_response(tk) ==
    [NoCall EXCEPT !.op = "health", !.status = 200,
                   !.stats = [NoStats EXCEPT !.total_tokens = get_stats(tk).total_tokens,
                                             !.active_tokens = get_stats(tk).active_tokens]]

(***************************************************************************)
(* The state machine: one call at a time.                                  *)
(***************************************************************************)
Threads == {"t1", "t2"}
Idle == [op |-> "none", body |-> NoJson]
\* a handler's locals: current_time; the dict iterator it is running (it_pos: the
\* next entry, it_len: the entries still expected, it_used: the dict's size when
\* the iteration began) and seen, the records that iteration has yielded;
\* inactive_tokens of _cleanup_inactive_tokens; active_tokens, results of send_push
\* and calls, the gateway calls it made;
\* active_count, total_successful of get_stats; response, what the handler returns
NoLocals ==
    [current_time |-> 0, it_pos |-> 0, it_len |-> 0, it_used |-> 0, seen |-> <<>>,
     inactive_tokens |-> <<>>, active_tokens |-> <<>>, results |-> <<>>, calls |-> <<>>,
     active_count |-> 0, total_successful |-> 0, response |-> NoCall]

Init ==
    /\ tokens = <<>>
    /\ now = 0
    /\ last = NoCall
    /\ pc = [t \in Threads |-> "idle"]
    /\ req = [t \in Threads |-> Idle]
    /\ loc = [t \in Threads |-> NoLocals]

threadVars == <<pc, req, loc>>

Register(body) ==
    /\ last' = [register_response(tokens, body, now) EXCEPT
                    !.size_before = Len(tokens),
                    !.again = (last.op = "register" /\ last.status = 200 /\ last.body = body)]
    /\ tokens' = register_tokens(tokens, body, now)
    /\ UNCHANGED <<now, threadVars>>

Unregister(body) ==
    /\ last' = [unregister_response(tokens, body) EXCEPT !.size_before = Len(tokens)]
    /\ tokens' = unregister_tokens(tokens, body)
    /\ UNCHANGED <<now, threadVars>>

\* (mutant) line 397 is not commented out: the results are fed back
Send_with_feedback(body) ==
    /\ \E provider \in [1..(IF body.json THEN Len(get_active_tokens(tokens)) ELSE 0) -> Providers] :
           /\ last' = [send_response(tokens, body, provider) EXCEPT
                           !.size_before = Len(tokens), !.provider = provider]
           /\ tokens' = update_token_stats(tokens, send_response(tokens, body, provider).results, now)
    /\ UNCHANGED <<now, threadVars>>

Send(body) ==
    /\ \E provider \in [1..(IF body.json THEN Len(get_active_tokens(tokens)) ELSE 0) -> Providers] :
           last' = [send_response(tokens, body, provider) EXCEPT
                        !.size_before = Len(tokens), !.provider = provider]
    /\ UNCHANGED <<tokens, now, threadVars>>

GetTokens ==
    /\ last' = [tokens_response(tokens) EXCEPT !.size_before = Len(tokens)]
    /\ UNCHANGED <<tokens, now, threadVars>>

GetStats ==
    /\ last' = [stats_response(tokens) EXCEPT !.size_before = Len(tokens)]
    /\ UNCHANGED <<tokens, now, threadVars>>

HealthCheck ==
    /\ last' = [health_response(tokens) EXCEPT !.size_before = Len(tokens)]
    /\ UNCHANGED <<tokens, now, threadVars>>

\* a direct call of TokenManager.update_token_stats (no handler makes it)
UpdateTokenStats(results) ==
    /\ tokens' = update_token_stats(tokens, results, now)
    /\ last' = [NoCall EXCEPT !.op = "update_token_stats", !.results = results,
                               !.size_before = Len(tokens)]
    /\ UNCHANGED <<now, threadVars>>

\* the results lists the bounds allow in this state
ResultLists(ids) ==
    LET budget == MaxSends - (SumSuccessful(tokens) + SumFailed(tokens))
        longest == IF budget < MaxResults THEN budget ELSE MaxResults
    IN  UNION {[1..n -> {r \in Outcomes : r.token \in ids}] : n \in 0..longest}

Tick ==
    /\ now < MaxTime
    /\ now' = now + 1
    /\ last' = [NoCall EXCEPT !.op = "tick", !.size_before = Len(tokens)]
    /\ UNCHANGED <<tokens, threadVars>>

Calls(ids) ==
    \/ \E body \in Bodies(ids) : Register(body)
    \/ \E body \in Bodies(ids) : Unregister(body)
    \/ \E body \in {NoJson, Obj(Null)} : Send(body)
    \/ GetTokens
    \/ GetStats
    \/ HealthCheck
    \/ \E results \in ResultLists(ids) : UpdateTokenStats(results)

Next == Calls(TokenIds)

Spec == Init /\ [][Next]_vars

NextClock == Tick \/ Calls(FewIds)

SpecClock == Init /\ [][NextClock]_vars

\* the HTTP routes alone: no call of update_token_stats, which no route makes
NextHttp ==
    \/ Tick
    \/ \E body \in Bodies(TokenIds) : Register(body)
    \/ \E body \in Bodies(TokenIds) : Unregister(body)
    \/ \E body \in {NoJson, Obj(Null)} : Send(body)
    \/ GetTokens
    \/ GetStats
    \/ HealthCheck

SpecHttp == Init /\ [][NextHttp]_vars

\* register_token by itself: registrations of any body, removals, the clock, and
\* update_token_stats told of one token that is no longer registered (which is
\* what makes a record inactive and evictable)
NextRegister ==
    \/ Tick
    \/ \E body \in Bodies(TokenIds) : Register(body)
    \/ \E body \in StrBodies(TokenIds) : Unregister(body)
    \/ \E results \in {<<send_message(t, "UnregisteredError")>> : t \in Keys(tokens)} :
          /\ SumSuccessful(tokens) + SumFailed(tokens) < MaxSends
          /\ UpdateTokenStats(results)

SpecRegister == Init /\ [][NextRegister]_vars

\* the results lists handed to update_token_stats when it is studied by itself:
\* any outcomes, also several for one token and for tokens the registry lacks
Batches(ids) ==
    LET budget == MaxSends - (SumSuccessful(tokens) + SumFailed(tokens))
        longest == IF budget < MaxBatch THEN budget ELSE MaxBatch
    IN  UNION {[1..n -> {r \in Outcomes : r.token \in ids}] : n \in 0..longest}

\* update_token_stats with the calls that create, refresh and remove records, and
\* the clock
NextRecord ==
    \/ Tick
    \/ \E body \in StrBodies(FewIds) : Register(body)
    \/ \E body \in StrBodies(FewIds) : Unregister(body)
    \/ \E results \in Batches(FewIds) : UpdateTokenStats(results)

SpecRecord == Init /\ [][NextRecord]_vars

(***************************************************************************)
(* The state machine: two request threads, one statement at a time.        *)
(* A dict operation (in, [], del, len, one step of an iterator) is atomic; *)
(* the threads interleave between them.                                    *)
(***************************************************************************)
\* the statements that run a dict iterator
IterPcs == {"reg_cleanup", "send_fetch", "stats_active", "stats_successful", "stats_failed",
            "tokens_list"}

\* iter(self.tokens.values()) / .items()
StartIter(l) ==
    [l EXCEPT !.it_pos = 1, !.it_len = Len(tokens), !.it_used = Len(tokens), !.seen = <<>>]

\* next() on the iterator: RuntimeError when the dict changed size or yields an
\* entry past those expected ("changed"), StopIteration ("end"), or an entry
IterOutcome(l) ==
    IF Len(tokens) # l.it_used THEN "changed"
    ELSE IF l.it_pos > Len(tokens) THEN "end"
    ELSE IF l.it_len = 0 THEN "changed"
    ELSE "item"

IterAdvance(l) ==
    [l EXCEPT !.seen = Append(@, tokens[l.it_pos]), !.it_pos = @ + 1, !.it_len = @ - 1]

\* a delete leaves a hole in the dict's entry array: an iterator that is past the
\* hole stays at the same live entry
Shifted(u, k) ==
    IF pc[u] \in IterPcs /\ loc[u].it_pos > k THEN [loc[u] EXCEPT !.it_pos = @ - 1] ELSE loc[u]

Goto(th, label, l) ==
    /\ pc' = [pc EXCEPT ![th] = label]
    /\ loc' = [loc EXCEPT ![th] = l]

\* the handler returns this response
Done(th, response) == Goto(th, "done", [NoLocals EXCEPT !.response = response])

\* del self.tokens[t] by thread th, which goes on at label with locals l
Delete(th, t, label, l) ==
    /\ tokens' = Del(tokens, t)
    /\ pc' = [pc EXCEPT ![th] = label]
    /\ loc' = [u \in Threads |-> IF u = th THEN l ELSE Shifted(u, Idx(tokens, t))]

Ops == {"register", "unregister", "send", "tokens", "stats", "health"}

\* the bodies a route reads: a GET reads none, POST /send reads no token
RequestBodies(op, ids) ==
    CASE op \in {"register", "unregister"} -> Bodies(ids)
      [] op = "send" -> {NoJson, Obj(Null)}
      [] OTHER -> {NoJson}

\* the exception handler of each route
InternalError(r) ==
    Failure(r.op, r.body, 500,
            CASE r.op = "register" -> "Internal server error"
              [] r.op = "unregister" -> "Internal server error during unregistration"
              [] r.op = "send" -> "Internal server error while sending notifications"
              [] r.op = "tokens" -> "Failed to fetch token information"
              [] r.op = "stats" -> "Failed to fetch statistics"
              [] OTHER -> "Internal server error")

\* a request arrives: the handler runs up to its first access to the registry
Begin(th, op, body) ==
    /\ pc[th] = "idle"
    /\ req' = [req EXCEPT ![th] = [op |-> op, body |-> body]]
    /\ CASE op = "register" ->
              IF ~body.json \/ Falsy(body.token) \/ register_raises(body.token)
              THEN Done(th, register_response(tokens, body, now))
              ELSE Goto(th, "reg_check", [NoLocals EXCEPT !.current_time = now])
         [] op = "unregister" ->
              IF ~body.json \/ Falsy(body.token)
              THEN Done(th, unregister_response(tokens, body))
              ELSE Goto(th, "unreg_check", NoLocals)
         [] op = "send" ->
              IF ~body.json
              THEN Done(th, Failure("send", body, 400, "No JSON data provided"))
              ELSE Goto(th, "send_fetch", StartIter(NoLocals))
         [] OTHER -> Goto(th, "stats_active", StartIter(NoLocals))
    /\ UNCHANGED <<tokens, now, last>>

\* register_token: if token in self.tokens
RegCheck(th) ==
    /\ pc[th] = "reg_check"
    /\ Goto(th, IF Has(tokens, req[th].body.token.val) THEN "reg_touch" ELSE "reg_limit", loc[th])
    /\ UNCHANGED <<tokens, now, last, req>>

\* self.tokens[token].last_active = current_time
RegTouch(th) ==
    LET t == req[th].body.token.val
    IN  /\ pc[th] = "reg_touch"
        /\ IF Has(tokens, t)
           THEN /\ tokens' = Put(tokens, [Get(tokens, t) EXCEPT !.last_active = loc[th].current_time])
                /\ Goto(th, "reg_activate", loc[th])
           ELSE /\ Done(th, InternalError(req[th]))
                /\ UNCHANGED tokens
        /\ UNCHANGED <<now, last, req>>

\* self.tokens[token].is_active = True
RegActivate(th) ==
    LET t == req[th].body.token.val
    IN  /\ pc[th] = "reg_activate"
        /\ IF Has(tokens, t)
           THEN /\ tokens' = Put(tokens, [Get(tokens, t) EXCEPT !.is_active = TRUE])
                /\ Goto(th, "reg_return_updated", loc[th])
           ELSE /\ Done(th, InternalError(req[th]))
                /\ UNCHANGED tokens
        /\ UNCHANGED <<now, last, req>>

\* if len(self.tokens) >= self.max_tokens
RegLimit(th) ==
    /\ pc[th] = "reg_limit"
    /\ IF Len(tokens) >= max_tokens
       THEN Goto(th, "reg_cleanup", StartIter(loc[th]))
       ELSE Goto(th, "reg_insert", loc[th])
    /\ UNCHANGED <<tokens, now, last, req>>

RECURSIVE InactiveOf(_)
InactiveOf(records) ==
    IF records = <<>> THEN <<>>
    ELSE (IF Head(records).is_active THEN <<>> ELSE <<Head(records).token>>) \o InactiveOf(Tail(records))

\* _cleanup_inactive_tokens: the comprehension over self.tokens.items()
RegCleanup(th) ==
    LET l == loc[th]
        out == IterOutcome(l)
    IN  /\ pc[th] = "reg_cleanup"
        /\ CASE out = "changed" -> Done(th, InternalError(req[th]))
             [] out = "item" -> Goto(th, "reg_cleanup", IterAdvance(l))
             [] OTHER -> Goto(th, "reg_evict",
                              [NoLocals EXCEPT !.current_time = l.current_time,
                                               !.inactive_tokens = InactiveOf(l.seen)])
        /\ UNCHANGED <<tokens, now, last, req>>

\* _cleanup_inactive_tokens: for token_str in inactive_tokens: del self.tokens[token_str]
RegEvict(th) ==
    LET l == loc[th]
    IN  /\ pc[th] = "reg_evict"
        /\ IF l.inactive_tokens = <<>>
           THEN Goto(th, "reg_insert", l) /\ UNCHANGED tokens
           ELSE IF Has(tokens, Head(l.inactive_tokens))
           THEN Delete(th, Head(l.inactive_tokens), "reg_evict",
                       [l EXCEPT !.inactive_tokens = Tail(@)])
           ELSE Done(th, InternalError(req[th])) /\ UNCHANGED tokens
        /\ UNCHANGED <<now, last, req>>

\* self.tokens[token] = FCMToken(...)
RegInsert(th) ==
    LET t == req[th].body.token.val
    IN  /\ pc[th] = "reg_insert"
        /\ tokens' = Put(tokens, FCMToken(t, loc[th].current_time, loc[th].current_time))
        /\ Goto(th, "reg_return_new", loc[th])
        /\ UNCHANGED <<now, last, req>>

\* return {'is_new': ..., 'token_count': len(self.tokens)}, and the handler's jsonify
RegReturn(th) ==
    /\ pc[th] \in {"reg_return_updated", "reg_return_new"}
    /\ Done(th, [NoCall EXCEPT !.op = "register", !.body = req[th].body, !.status = 200,
                               !.success = TRUE,
                               !.message = IF pc[th] = "reg_return_new"
                                           THEN "New token registered" ELSE "Token updated",
                               !.is_new = (pc[th] = "reg_return_new"),
                               !.total_tokens = Len(tokens)])
    /\ UNCHANGED <<tokens, now, last, req>>

\* remove_token: if token in self.tokens; the else branch ends the call
UnregCheck(th) ==
    LET v == req[th].body.token
    IN  /\ pc[th] = "unreg_check"
        /\ IF IsStr(v) /\ Has(tokens, v.val) THEN Goto(th, "unreg_del", loc[th])
           ELSE IF remove_raises(v) THEN Done(th, InternalError(req[th]))
           ELSE Done(th, unregister_response(<<>>, req[th].body))
        /\ UNCHANGED <<tokens, now, last, req>>

\* del self.tokens[token]
UnregDel(th) ==
    LET t == req[th].body.token.val
    IN  /\ pc[th] = "unreg_del"
        /\ IF Has(tokens, t)
           THEN Delete(th, t, "unreg_count", loc[th])
           ELSE Done(th, InternalError(req[th])) /\ UNCHANGED tokens
        /\ UNCHANGED <<now, last, req>>

\* the handler's "total_tokens": len(token_manager.tokens)
UnregCount(th) ==
    /\ pc[th] = "unreg_count"
    /\ Done(th, [NoCall EXCEPT !.op = "unregister", !.body = req[th].body, !.status = 200,
                               !.success = TRUE, !.message = "Token unregistered successfully",
                               !.removed = TRUE, !.total_tokens = Len(tokens)])
    /\ UNCHANGED <<tokens, now, last, req>>

\* get_active_tokens: the comprehension over self.tokens.values(), then
\* `if not active_tokens`
SendFetch(th) ==
    LET l == loc[th]
        out == IterOutcome(l)
    IN  /\ pc[th] = "send_fetch"
        /\ CASE out = "changed" -> Done(th, InternalError(req[th]))
             [] out = "item" -> Goto(th, "send_fetch", IterAdvance(l))
             [] OTHER ->
                  IF get_active_tokens(l.seen) = <<>>
                  THEN Done(th, Failure("send", req[th].body, 400, "No active tokens to send to"))
                  ELSE Goto(th, "send_loop", [NoLocals EXCEPT !.active_tokens = get_active_tokens(l.seen)])
        /\ UNCHANGED <<tokens, now, last, req>>

\* one turn of `for token in active_tokens`: fcm_service.send_message, results.append
SendCall(th) ==
    LET l == loc[th]
    IN  /\ pc[th] = "send_loop"
        /\ Len(l.results) < Len(l.active_tokens)
        /\ \E provider \in Providers :
               Goto(th, "send_loop",
                    [l EXCEPT !.results = Append(@, send_message(l.active_tokens[Len(l.results) + 1], provider)),
                              !.calls = Append(@, l.active_tokens[Len(l.results) + 1])])
        /\ UNCHANGED <<tokens, now, last, req>>

\* after the loop: successes, failures and the report
SendReport(th) ==
    LET l == loc[th]
    IN  /\ pc[th] = "send_loop"
        /\ Len(l.results) = Len(l.active_tokens)
        /\ Goto(th, "done",
                [l EXCEPT !.response = [send_report(req[th].body, l.active_tokens, l.results)
                                            EXCEPT !.calls = l.calls]])
        /\ UNCHANGED <<tokens, now, last, req>>

\* get_stats: active_count = sum(1 for token in self.tokens.values() if token.is_active)
StatsActive(th) ==
    LET l == loc[th]
        out == IterOutcome(l)
    IN  /\ pc[th] = "stats_active"
        /\ CASE out = "changed" -> Done(th, InternalError(req[th]))
             [] out = "item" -> Goto(th, "stats_active", IterAdvance(l))
             [] OTHER -> Goto(th, "stats_successful",
                              StartIter([NoLocals EXCEPT !.active_count = Len(get_active_tokens(l.seen))]))
        /\ UNCHANGED <<tokens, now, last, req>>

\* get_stats: total_successful = sum(token.successful_sends ...)
StatsSuccessful(th) ==
    LET l == loc[th]
        out == IterOutcome(l)
    IN  /\ pc[th] = "stats_successful"
        /\ CASE out = "changed" -> Done(th, InternalError(req[th]))
             [] out = "item" -> Goto(th, "stats_successful", IterAdvance(l))
             [] OTHER -> Goto(th, "stats_failed",
                              StartIter([NoLocals EXCEPT !.active_count = l.active_count,
                                                         !.total_successful = SumSuccessful(l.seen)]))
        /\ UNCHANGED <<tokens, now, last, req>>

\* get_stats: total_failed = sum(token.failed_sends ...), the dict it returns, and
\* what GET /stats and GET / make of it
StatsFailed(th) ==
    LET l == loc[th]
        out == IterOutcome(l)
        stats == [total_tokens |-> Len(tokens),
                  active_tokens |-> l.active_count,
                  inactive_tokens |-> Len(tokens) - l.active_count,
                  total_successful_sends |-> l.total_successful,
                  total_failed_sends |-> SumFailed(l.seen)]
        op == req[th].op
    IN  /\ pc[th] = "stats_failed"
        /\ CASE out = "changed" -> Done(th, InternalError(req[th]))
             [] out = "item" -> Goto(th, "stats_failed", IterAdvance(l))
             [] OTHER ->
                  IF op = "tokens"
                  THEN Goto(th, "tokens_list",
                            StartIter([NoLocals EXCEPT !.response = [NoCall EXCEPT !.stats = stats]]))
                  ELSE IF op = "stats"
                  THEN Done(th, [NoCall EXCEPT !.op = "stats", !.status = 200, !.success = TRUE,
                                               !.stats = stats])
                  ELSE Done(th, [NoCall EXCEPT !.op = "health", !.status = 200,
                                               !.stats = [NoStats EXCEPT
                                                   !.total_tokens = stats.total_tokens,
                                                   !.active_tokens = stats.active_tokens]])
        /\ UNCHANGED <<tokens, now, last, req>>

\* get_tokens: the comprehension over enumerate(token_manager.tokens.values())
TokensList(th) ==
    LET l == loc[th]
        out == IterOutcome(l)
    IN  /\ pc[th] = "tokens_list"
        /\ CASE out = "changed" -> Done(th, InternalError(req[th]))
             [] out = "item" -> Goto(th, "tokens_list", IterAdvance(l))
             [] OTHER -> Done(th, [NoCall EXCEPT !.op = "tokens", !.status = 200, !.success = TRUE,
                                                 !.stats = l.response.stats,
                                                 !.listing = tokens_info(l.seen)])
        /\ UNCHANGED <<tokens, now, last, req>>

\* the response is sent; the thread takes the next request
Return(th) ==
    /\ pc[th] = "done"
    /\ pc' = [pc EXCEPT ![th] = "idle"]
    /\ req' = [req EXCEPT ![th] = Idle]
    /\ loc' = [loc EXCEPT ![th] = NoLocals]
    /\ UNCHANGED <<tokens, now, last>>

Step(th) ==
    \/ \E op \in Ops : \E body \in RequestBodies(op, FewIds) : Begin(th, op, body)
    \/ RegCheck(th)
    \/ RegTouch(th)
    \/ RegActivate(th)
    \/ RegLimit(th)
    \/ RegCleanup(th)
    \/ RegEvict(th)
    \/ RegInsert(th)
    \/ RegReturn(th)
    \/ UnregCheck(th)
    \/ UnregDel(th)
    \/ UnregCount(th)
    \/ SendFetch(th)
    \/ SendCall(th)
    \/ SendReport(th)
    \/ StatsActive(th)
    \/ StatsSuccessful(th)
    \/ StatsFailed(th)
    \/ TokensList(th)
    \/ Return(th)

NextConc == \E th \in Threads : Step(th)

SpecConc == Init /\ [][NextConc]_vars

\* a thread that is serving a request takes its next statement: the interpreter
\* gives every runnable thread its turn, and messaging.send returns
Run(th) == pc[th] # "idle" /\ Step(th)

SpecConcFair == SpecConc /\ \A th \in Threads : WF_vars(Run(th))

(***************************************************************************)
(* Properties.                                                             *)
(***************************************************************************)
ActiveIn(tk, t) == Has(tk, t) /\ Get(tk, t).is_active
InactiveIn(tk, t) == Has(tk, t) /\ ~Get(tk, t).is_active
AllInactive(tk) == \A i \in DOMAIN tk : ~tk[i].is_active

\* C1: in every reachable state the registry holds at most max_tokens records,
\* also after a new identifier is registered into a full registry whose records
\* are all active.
C1_SizeWithinMax == Len(tokens) <= max_tokens

\* C2: two requests that register the same absent identifier at the same time do
\* not both take the new-record branch (exactly one of them returns is_new=true,
\* the other sees the record and updates it).
C2_OneNewRegistration ==
    \A t1, t2 \in Threads :
        (t1 # t2 /\ pc[t1] = "reg_return_new" /\ pc[t2] = "reg_return_new")
            => req[t1].body # req[t2].body

MarkedUnregistered(results, t) ==
    \E i \in DOMAIN results : results[i].token = t /\ results[i].error_code = "UNREGISTERED"

\* C3: a call of update_token_stats with an UNREGISTERED failure for a record
\* leaves that record inactive, and a record that is inactive becomes active again
\* only by a successful POST /register of its own identifier.
C3_InactiveUntilReregistered ==
    [][\A t \in TokenIds :
        /\ (last'.op = "update_token_stats" /\ Has(tokens, t)
              /\ MarkedUnregistered(last'.results, t))
             => InactiveIn(tokens', t)
        /\ (InactiveIn(tokens, t) /\ ActiveIn(tokens', t))
             => (last'.op = "register" /\ last'.status = 200 /\ last'.body = Obj(Str(t)))]_vars

\* C3 witness: update_token_stats has just marked a record inactive
C3_Witness ==
    /\ last.op = "update_token_stats"
    /\ \E t \in TokenIds : MarkedUnregistered(last.results, t) /\ InactiveIn(tokens, t)

\* C4: a broadcast that fetched a non-empty active list calls the gateway once for
\* each entry of that list, in order, whatever happens to the registry meanwhile;
\* its report is built from one outcome per entry, each outcome in exactly one of
\* successes and failures, and sent + failed is the length of the fetched list.
C4_OneSendPerFetchedToken ==
    \A th \in Threads :
        LET l == loc[th]
            r == l.response
        IN  /\ pc[th] = "send_loop" =>
                /\ l.active_tokens # <<>>
                /\ Len(l.calls) <= Len(l.active_tokens)
                /\ l.calls = SubSeq(l.active_tokens, 1, Len(l.calls))
                /\ TokensOf(l.results) = l.calls
            /\ (pc[th] = "done" /\ r.op = "send" /\ r.status = 200) =>
                /\ l.active_tokens # <<>>
                /\ l.calls = l.active_tokens
                /\ r.calls = l.active_tokens
                /\ TokensOf(l.results) = l.active_tokens
                /\ r.sent = Len(r.successes) /\ r.failed = Len(r.failures)
                /\ r.sent + r.failed = Len(l.active_tokens)
                /\ \A i \in DOMAIN r.successes : r.successes[i].success
                /\ \A i \in DOMAIN r.failures : ~r.failures[i].success
                /\ \A i \in DOMAIN l.results :
                       Cardinality({j \in DOMAIN r.successes : r.successes[j] = l.results[i]})
                     + Cardinality({j \in DOMAIN r.failures : r.failures[j] = l.results[i]})
                     = Cardinality({j \in DOMAIN l.results : l.results[j] = l.results[i]})

\* C4 witness: a report over two fetched tokens, one delivered and one failed, the
\* first of them unregistered while the sends were running
C4_Witness ==
    \E th \in Threads :
        /\ pc[th] = "done" /\ loc[th].response.op = "send" /\ loc[th].response.status = 200
        /\ Len(loc[th].active_tokens) = 2
        /\ loc[th].response.sent = 1 /\ loc[th].response.failed = 1
        /\ ~Has(tokens, loc[th].active_tokens[1])

\* C5: POST /send with a JSON body while no record is active answers 400 "No
\* active tokens to send to" and calls the gateway not once.
C5_NoRecipients ==
    [][(last'.op = "send" /\ last'.body.json /\ AllInactive(tokens))
         => /\ last'.status = 400
            /\ ~last'.success
            /\ last'.error = "No active tokens to send to"
            /\ last'.calls = <<>>
            /\ tokens' = tokens]_vars

\* C5 witness: the broadcast was refused while the registry holds only inactive records
C5_Witness ==
    /\ last.op = "send" /\ last.body.json /\ last.status = 400
    /\ tokens # <<>> /\ AllInactive(tokens)

\* C6: a POST /register that directly follows a successful POST /register of the
\* same identifier returns is_new=false and the same total_tokens, and leaves the
\* registry's size and keys as they were.
C6_RegisterTwice ==
    [][(last'.op = "register" /\ last'.again)
         => /\ last'.status = 200
            /\ ~last'.is_new
            /\ last'.total_tokens = last.total_tokens
            /\ Len(tokens') = Len(tokens)
            /\ Keys(tokens') = Keys(tokens)]_vars

\* C6 witness: the same identifier was registered twice in a row into a registry
\* that holds other records too
C6_Witness ==
    /\ last.op = "register" /\ last.again /\ last.status = 200
    /\ Len(tokens) >= 2

\* C7: get_stats returns total_tokens = active_tokens + inactive_tokens, with
\* active_tokens the length of get_active_tokens() and neither count negative, in
\* every reachable state; GET /stats and GET /tokens return those numbers.
C7_StatsAddUp ==
    LET st == get_stats(tokens)
    IN  /\ st.total_tokens = st.active_tokens + st.inactive_tokens
        /\ st.total_tokens = Len(tokens)
        /\ st.active_tokens = Len(get_active_tokens(tokens))
        /\ st.active_tokens >= 0 /\ st.inactive_tokens >= 0
        /\ last.op \in {"stats", "tokens"} => last.stats = st

\* C7 witness: GET /stats over a registry with active and inactive records
C7_Witness ==
    /\ last.op = "stats"
    /\ last.stats.active_tokens >= 1 /\ last.stats.inactive_tokens >= 1

\* C8: registering a new identifier into a registry of exactly max_tokens records,
\* all inactive, removes every one of them and leaves the new, active record alone
\* in the registry.
C8_EvictAllInactive ==
    [][(last'.op = "register" /\ last'.status = 200
          /\ Len(tokens) = max_tokens /\ AllInactive(tokens)
          /\ ~Has(tokens, last'.body.token.val))
         => /\ Len(tokens') = 1
            /\ tokens'[1].token = last'.body.token.val
            /\ tokens'[1].is_active
            /\ Keys(tokens') \cap Keys(tokens) = {}
            /\ last'.is_new /\ last'.total_tokens = 1]_vars

\* C8 witness: a registration into a full registry has left one record
C8_Witness ==
    /\ last.op = "register" /\ last.is_new /\ last.size_before = max_tokens
    /\ Len(tokens) = 1

\* C9: while a record stays in the registry neither its successful_sends nor its
\* failed_sends goes down, whatever call is made.
C9_CountersNeverDecrease ==
    [][\A t \in TokenIds :
        (Has(tokens, t) /\ Has(tokens', t))
          => /\ Get(tokens', t).successful_sends >= Get(tokens, t).successful_sends
             /\ Get(tokens', t).failed_sends >= Get(tokens, t).failed_sends]_vars

\* C9 witness: a record with sends counted has just been re-registered
C9_Witness ==
    /\ last.op = "register" /\ last.status = 200 /\ ~last.is_new
    /\ Get(tokens, last.body.token.val).successful_sends >= 1
    /\ Get(tokens, last.body.token.val).failed_sends >= 1

\* C10: POST /unregister of a string identifier that is present answers 200 and
\* removes that record and no other; of one that is absent it answers 404, raises
\* nothing and leaves the registry as it was.
C10_Unregister ==
    [][\A t \in TokenIds :
        (last'.op = "unregister" /\ last'.body = Obj(Str(t)))
          => IF Has(tokens, t)
             THEN /\ last'.removed /\ last'.status = 200 /\ last'.success
                  /\ Keys(tokens') = Keys(tokens) \ {t}
                  /\ Len(tokens') = Len(tokens) - 1
                  /\ \A u \in Keys(tokens') : Get(tokens', u) = Get(tokens, u)
                  /\ last'.total_tokens = Len(tokens')
             ELSE /\ ~last'.removed /\ last'.status = 404 /\ ~last'.success
                  /\ tokens' = tokens]_vars

\* C10 witness: an absent identifier was unregistered from a registry that holds records
C10_Witness ==
    /\ last.op = "unregister" /\ last.status = 404
    /\ tokens # <<>>

\* C11: POST /register with a JSON body whose token is empty, missing or not a
\* string answers 400 (the handler's own test, or register_token's ValueError)
\* and leaves the registry exactly as it was, also when the registry is full.
C11_InvalidRegisterRejected ==
    [][(last'.op = "register" /\ last'.body.json
          /\ (last'.body.token.type # "str" \/ last'.body.token.val = ""))
         => /\ last'.status = 400
            /\ ~last'.success
            /\ last'.error \in {"No token provided", "Invalid token provided"}
            /\ tokens' = tokens]_vars

\* C11 witness: register_token raised ValueError for a number while the registry
\* was at capacity and held an inactive record
C11_Witness ==
    /\ last.op = "register" /\ last.body = Obj(Num7)
    /\ last.status = 400 /\ last.error = "Invalid token provided"
    /\ Len(tokens) >= max_tokens
    /\ \E i \in DOMAIN tokens : ~tokens[i].is_active

\* C12: every call of send_message made by a broadcast returns one outcome that
\* carries the token it was called with and raises nothing (the broadcast never
\* answers 500): success when the provider returns, INVALID_ARGUMENT for an
\* InvalidArgumentError, UNREGISTERED for an UnregisteredError, UNKNOWN for any
\* other exception.
C12_GatewayAlwaysReturns ==
    last.op = "send" =>
        /\ last.status # 500
        /\ Len(last.results) = Len(last.provider)
        /\ \A i \in DOMAIN last.provider :
              LET r == last.results[i]
                  p == last.provider[i]
              IN  /\ r.token = get_active_tokens(tokens)[i]
                  /\ r.success = (p = "ok")
                  /\ r.error_code = CASE p = "ok" -> ""
                                      [] p = "InvalidArgumentError" -> "INVALID_ARGUMENT"
                                      [] p = "UnregisteredError" -> "UNREGISTERED"
                                      [] OTHER -> "UNKNOWN"

\* C12 witness: a broadcast in which the provider raised each kind of error
C12_Witness ==
    /\ last.op = "send" /\ last.status = 200
    /\ \A p \in Providers \ {"ok"} : \E i \in DOMAIN last.provider : last.provider[i] = p

\* C13: POST /send leaves the registry as it was, whatever the gateway returned:
\* the same records in the same order, each with the same counters, is_active,
\* registered_at and last_active.
C13_BroadcastLeavesRegistry ==
    [][last'.op = "send"
         => /\ Keys(tokens') = Keys(tokens)
            /\ Len(tokens') = Len(tokens)
            /\ \A t \in Keys(tokens) :
                  /\ Get(tokens', t).successful_sends = Get(tokens, t).successful_sends
                  /\ Get(tokens', t).failed_sends = Get(tokens, t).failed_sends
                  /\ Get(tokens', t).is_active = Get(tokens, t).is_active
                  /\ Get(tokens', t).registered_at = Get(tokens, t).registered_at
                  /\ Get(tokens', t).last_active = Get(tokens, t).last_active
            /\ tokens' = tokens]_vars

\* C13 witness: a broadcast reported a delivery and an UNREGISTERED failure, and
\* the records it was sent to are still active with no send counted
C13_Witness ==
    /\ last.op = "send" /\ last.status = 200 /\ last.sent >= 1
    /\ \E i \in DOMAIN last.failures :
          /\ last.failures[i].error_code = "UNREGISTERED"
          /\ ActiveIn(tokens, last.failures[i].token)
          /\ Get(tokens, last.failures[i].token).failed_sends = 0
    /\ \E i \in DOMAIN last.successes :
          Get(tokens, last.successes[i].token).successful_sends = 0

\* the handler of POST /send has returned the report or "No active tokens to send to"
Reported(th) ==
    /\ pc[th] = "done" /\ loc[th].response.op = "send"
    /\ \/ /\ loc[th].response.status = 200
          /\ Len(loc[th].results) = Len(loc[th].active_tokens)
          /\ loc[th].response.sent + loc[th].response.failed = Len(loc[th].active_tokens)
       \/ /\ loc[th].response.status = 400
          /\ loc[th].response.error = "No active tokens to send to"
          /\ loc[th].results = <<>>

Successes(results, t) ==
    Cardinality({i \in DOMAIN results : results[i].token = t /\ results[i].success})
Failures(results, t) ==
    Cardinality({i \in DOMAIN results : results[i].token = t /\ ~results[i].success})
Terminal(results, t) ==
    \E i \in DOMAIN results :
        /\ results[i].token = t /\ ~results[i].success
        /\ results[i].error_code \in {"UNREGISTERED", "INVALID_ARGUMENT"}

\* C15: update_token_stats counts every outcome of the list on its own: a record
\* gains 1 successful_sends for each delivery to it and 1 failed_sends for each
\* failure, becomes inactive exactly when one of its failures is UNREGISTERED or
\* INVALID_ARGUMENT (a delivery or an UNKNOWN failure leaves is_active alone),
\* and has last_active refreshed by a delivery; an outcome for a token the
\* registry lacks creates no record, and a record no outcome names is unchanged.
C15_RecordResults ==
    [][last'.op = "update_token_stats"
         => /\ TokensOf(tokens') = TokensOf(tokens)
            /\ \A i \in DOMAIN tokens :
                  LET o == tokens[i]
                      n == tokens'[i]
                      results == last'.results
                  IN  /\ n.successful_sends = o.successful_sends + Successes(results, o.token)
                      /\ n.failed_sends = o.failed_sends + Failures(results, o.token)
                      /\ n.is_active = (o.is_active /\ ~Terminal(results, o.token))
                      /\ n.registered_at = o.registered_at
                      /\ n.last_active = IF Successes(results, o.token) > 0 THEN now
                                         ELSE o.last_active
                      /\ (Successes(results, o.token) + Failures(results, o.token) = 0)
                            => n = o]_vars

\* C15 witness: a list of two outcomes for one record, a delivery and then an
\* UNREGISTERED failure, handed over after the clock has advanced, while the
\* registry holds a second record the list does not name
C15_Witness ==
    /\ last.op = "update_token_stats" /\ Len(last.results) = 2
    /\ last.results[1].success /\ last.results[2].error_code = "UNREGISTERED"
    /\ last.results[1].token = last.results[2].token
    /\ InactiveIn(tokens, last.results[1].token)
    /\ Get(tokens, last.results[1].token).successful_sends = 1
    /\ Get(tokens, last.results[1].token).failed_sends = 1
    /\ Get(tokens, last.results[1].token).last_active > Get(tokens, last.results[1].token).registered_at
    /\ Len(tokens) = 2

\* C16: a record leaves the registry only by POST /unregister of its own
\* identifier, or, being inactive, by the eviction of a registration of a new
\* identifier into a registry of at least max_tokens records; a registration
\* keeps every active record and the record it inserts, and removes nothing at
\* all when its identifier is already there or the registry is below max_tokens.
C16_RemovalOnlyByUnregisterOrEviction ==
    [][\A t \in TokenIds :
        /\ (Has(tokens, t) /\ ~Has(tokens', t))
             => \/ last'.op = "unregister" /\ last'.body = Obj(Str(t))
                \/ /\ last'.op = "register" /\ last'.status = 200 /\ last'.is_new
                   /\ last'.body # Obj(Str(t))
                   /\ ~Get(tokens, t).is_active
                   /\ Len(tokens) >= max_tokens
        /\ (last'.op = "register" /\ last'.status = 200 /\ last'.body = Obj(Str(t)))
             => /\ Has(tokens', t)
                /\ \A u \in Keys(tokens) : Get(tokens, u).is_active => Has(tokens', u)
                /\ (Has(tokens, t) \/ Len(tokens) < max_tokens)
                      => /\ Keys(tokens) \subseteq Keys(tokens')
                         /\ \A u \in Keys(tokens) \ {t} : Get(tokens', u) = Get(tokens, u)]_vars

\* C16 witness: a registration into a full registry evicted an inactive record
\* and kept an active one beside the record it inserted
C16_Witness ==
    /\ last.op = "register" /\ last.status = 200 /\ last.is_new
    /\ last.size_before >= max_tokens
    /\ Len(tokens) = last.size_before
    /\ \E i \in DOMAIN tokens : tokens[i].token # last.body.token.val /\ tokens[i].is_active

\* C17: POST /register of an identifier the registry already holds sets that
\* record's last_active to the time of the call and its is_active to true and
\* changes nothing else: registered_at and both counters keep their values, the
\* other records, the order and the size are as before; and whatever call is
\* made, a record that stays in the registry keeps its registered_at.
C17_ReRegisterFrame ==
    [][\A t \in FewIds :
        /\ (last'.op = "register" /\ last'.status = 200 /\ last'.body = Obj(Str(t))
              /\ Has(tokens, t))
             => /\ ~last'.is_new
                /\ last'.total_tokens = Len(tokens)
                /\ TokensOf(tokens') = TokensOf(tokens)
                /\ Get(tokens', t).last_active = now
                /\ Get(tokens', t).is_active
                /\ Get(tokens', t).registered_at = Get(tokens, t).registered_at
                /\ Get(tokens', t).successful_sends = Get(tokens, t).successful_sends
                /\ Get(tokens', t).failed_sends = Get(tokens, t).failed_sends
                /\ \A u \in Keys(tokens) \ {t} : Get(tokens', u) = Get(tokens, u)
        /\ (Has(tokens, t) /\ Has(tokens', t))
             => Get(tokens', t).registered_at = Get(tokens, t).registered_at]_vars

\* C17 witness: an inactive record with counted sends was registered again at a
\* later time than its first registration, beside another record
C17_Witness ==
    /\ last.op = "register" /\ last.status = 200 /\ ~last.is_new
    /\ Len(tokens) = 2
    /\ LET r == Get(tokens, last.body.token.val)
       IN  /\ r.last_active > r.registered_at
           /\ r.is_active
           /\ r.failed_sends >= 1 /\ r.successful_sends >= 1

\* C18: after any sequence of requests to the routes, with any gateway outcomes,
\* every record is active with both counters 0; get_stats, and so GET /stats and
\* GET /tokens, report no inactive token and no send; and a registration never
\* evicts: the registry after it holds every record it held before.
C18_HttpOnlyAllActive ==
    /\ \A i \in DOMAIN tokens :
          tokens[i].is_active /\ tokens[i].successful_sends = 0 /\ tokens[i].failed_sends = 0
    /\ get_stats(tokens).inactive_tokens = 0
    /\ get_stats(tokens).total_successful_sends = 0
    /\ get_stats(tokens).total_failed_sends = 0
    /\ last.op \in {"stats", "tokens"}
          => /\ last.stats.inactive_tokens = 0
             /\ last.stats.active_tokens = Len(tokens)
             /\ last.stats.total_successful_sends = 0
             /\ last.stats.total_failed_sends = 0
    /\ (last.op = "register" /\ last.status = 200)
          => Len(tokens) = last.size_before + (IF last.is_new THEN 1 ELSE 0)

\* C18 witness: GET /stats after a broadcast with failures, the registry over
\* max_tokens
C18_Witness ==
    /\ last.op = "stats"
    /\ last.stats.total_tokens > max_tokens
    /\ last.stats.active_tokens = last.stats.total_tokens

\* C19: a request answers 500 only for a reason of its own (POST /unregister with
\* a token that is not a string, on which remove_token raises), never because of
\* what another request does at the same time: no missing key in the eviction or
\* in remove_token, and no failed iteration in get_active_tokens, get_stats or
\* get_tokens.
C19_NoInternalErrorFromInterleaving ==
    \A th \in Threads :
        (pc[th] = "done" /\ loc[th].response.status = 500)
            => (req[th].op = "unregister" /\ remove_raises(req[th].body.token))

\* C20: POST /register of a non-empty string answers 200 in every state of the
\* registry, a full one with only active records included; after it the token
\* is in the registry, active, and in get_active_tokens(); it is new exactly
\* when the registry lacked it, and the new record has both counters 0 and
\* registered_at = last_active = the time of the call; total_tokens is the size
\* of the registry after the call, at least 1.
C20_ValidRegisterSucceeds ==
    [][\A t \in TokenIds :
        (last'.op = "register" /\ last'.body = Obj(Str(t)))
          => /\ last'.status = 200 /\ last'.success
             /\ ActiveIn(tokens', t)
             /\ \E i \in DOMAIN get_active_tokens(tokens') : get_active_tokens(tokens')[i] = t
             /\ last'.is_new = ~Has(tokens, t)
             /\ ~Has(tokens, t)
                   => /\ Get(tokens', t).successful_sends = 0
                      /\ Get(tokens', t).failed_sends = 0
                      /\ Get(tokens', t).registered_at = Get(tokens', t).last_active
                      /\ Get(tokens', t).registered_at = now
             /\ last'.total_tokens = Len(tokens')
             /\ last'.total_tokens >= 1]_vars

\* C20 witness: after the clock advanced, a new token was registered into a full
\* registry whose records were all active, and sits beside them
C20_Witness ==
    /\ last.op = "register" /\ last.status = 200 /\ last.is_new
    /\ last.size_before >= max_tokens
    /\ Len(tokens) = last.size_before + 1
    /\ \A i \in DOMAIN tokens : tokens[i].is_active
    /\ Get(tokens, last.body.token.val).registered_at >= 1

=============================================================================
